---- MODULE Spec2Model ----
(***************************************************************************)
(* Order assignment with timeout-driven reassignment.                      *)
(*                                                                         *)
(* The model follows services/orderAssignmentService (OrderAssignment-     *)
(* Service) and models/Order (Order) for ONE order id.  The orders         *)
(* collection and the timer map are keyed by order id and no operation     *)
(* touches the entry of another id, so one id shows every behaviour.       *)
(*                                                                         *)
(* Order.findById builds `new Order(orderData)`: the scalar fields         *)
(* (status, currentDriverId, reassignmentCount, timeoutAt) are copied into *)
(* the caller's object, while driverAssignments and reassignmentLogs are   *)
(* the SAME arrays as in the stored object.  So the arrays are modelled as *)
(* shared state and the scalars as a per-call copy written back by save(). *)
(*                                                                         *)
(* Every handler is an async function.  It is split into segments at its   *)
(* await points; Spec runs a handler to completion in one action (that is  *)
(* how the timer callback and the HTTP handlers run, all awaited promises  *)
(* being already resolved), SpecConc also issues two calls in the same     *)
(* tick (as Promise.all([f(), g()]) does) and runs their continuations in  *)
(* the order of the microtask queue: every await of the handlers waits for *)
(* a fixed number of microtask turns, and continuations due in the same    *)
(* turn run in the order in which the calls were issued.                   *)
(*                                                                         *)
(* SpecNotify adds the HTTP layer and the notification side: the order     *)
(* controller's handleDriverResponse (the service call followed by the     *)
(* un-awaited notifyCustomerAboutReassignment), the chatbot query, and the *)
(* text-generation API call during which other requests are served.  A     *)
(* call of notifyCustomerAboutOrderStatus or handleCustomerChatbotQuery is *)
(* split at its await of the generated text.                               *)
(***************************************************************************)
EXTENDS Integers, Sequences, FiniteSets, TLC

\* ---------------------------------------------------------------- bounds
\* drivers that are not in the mock pool of getNextAvailableDriver
NumOtherDrivers == 1
\* offers that the clients make for the order through assignOrderToDriver
MaxClientOffers == 2
\* times that two calls for the order are issued in the same tick (SpecConc)
MaxTogether == 1
\* text-generation requests of the order that wait for the API at once (SpecNotify)
MaxInFlight == 2

\* ------------------------------------------------------ program constants
\* process.env.MAX_ASSIGNMENT_ATTEMPTS || '5'
maxAssignmentAttempts == 5

\* parseInt(process.env.DRIVER_ASSIGNMENT_TIMEOUT || '15000'), milliseconds
assignmentTimeout == 15000
\* the mock pool, in its order: '...567', '...568', '...569', '...570', '...571'
availableDrivers == <<1, 2, 3, 4, 5>>

\* process.env.MAX_NOTIFICATIONS_PER_ORDER || '3'
maxNotificationsPerOrder == 3

Drivers == 1..(Len(availableDrivers) + NumOtherDrivers)
\* null (no driver)
NoDriver == 0

\* Microtask turns until the continuation of an await runs.
\* `await Order.findById(id)`: findById is an async function that returns
\* the promise Promise.resolve(...), which costs two turns to adopt, and the
\* await one more
TurnsFindById == 3
\* `await order.addDriverAssignment(..)`, recordDriverResponse, recordReassignment,
\* markAsTimedOut: each returns the promise of save(), itself an async function
\* that returns Promise.resolve(this)
TurnsSave == 4
\* `await this.getNextAvailableDriver(id)` after its own findById: the function
\* returns a plain value
TurnsReturn == 1

VARIABLES
  order,              \* the scalars of the stored Order (orders collection entry)
  driverAssignments,  \* the order's driverAssignments array (shared by reference)
  reassignmentLogs,   \* the order's reassignmentLogs array (shared by reference)
  assignmentTimers,   \* the entry of the order in OrderAssignmentService.assignmentTimers
  timeouts,           \* the drivers whose setTimeout callback for the order is scheduled
  service,            \* the fields assignmentTimeout and maxAssignmentAttempts
                      \* of the OrderAssignmentService object
  clientOffers,       \* number of offers made through assignOrderToDriver so far
  procs,              \* the calls in flight (SpecConc)
  pre,                \* the state in which the calls in flight were issued (SpecConc)
  together,           \* number of times two calls were issued together (SpecConc)
  enableReassignmentNotifications,  \* CustomerNotificationService configuration
  notificationCounters,  \* the entry of the order in notificationCounters (0: none)
  inFlight,           \* the requests that wait for the text-generation API: how many
                      \* of each caller and query type
  reassignmentRequests,  \* the reassignmentCount arguments of the calls of
                      \* notifyCustomerAboutReassignment that the controller made
  lastResult,         \* what the last finished notification or chatbot call returned
  store               \* the Maps of the process when it holds several orders, each
                      \* keyed by order id: ordersCollection, assignmentTimers,
                      \* notificationCounters, with the scheduled timeouts and the
                      \* notification calls that wait for the API

notifyVars == <<enableReassignmentNotifications, notificationCounters, inFlight,
                reassignmentRequests, lastResult>>

vars == <<order, driverAssignments, reassignmentLogs, assignmentTimers, timeouts,
          service, clientOffers, procs, pre, together, enableReassignmentNotifications,
          notificationCounters, inFlight, reassignmentRequests, lastResult, store>>

\* ------------------------------------------------------------ Order model
\* No entry in the orders collection
NoOrder ==
  [exists |-> FALSE, status |-> "pending", currentDriverId |-> NoDriver,
   reassignmentCount |-> 0, timeoutAt |-> FALSE]

\* an Order constructor that takes the first pool driver as currentDriverId
NewOrder_WithDriver ==
  [exists |-> TRUE, status |-> "pending", currentDriverId |-> availableDrivers[1],
   reassignmentCount |-> 0, timeoutAt |-> FALSE]

\* new Order({customerId, orderDetails, status: PENDING})
NewOrder ==
  [exists |-> TRUE, status |-> "pending", currentDriverId |-> NoDriver,
   reassignmentCount |-> 0, timeoutAt |-> FALSE]

\* no entry in the timer map
NoTimer == [set |-> FALSE, driverId |-> NoDriver, armed |-> FALSE, delay |-> 0]

\* the service object after its constructor, with no environment variable set
NewService ==
  [assignmentTimeout |-> assignmentTimeout,
   maxAssignmentAttempts |-> maxAssignmentAttempts]

\* The world before the order is created
EmptyWorld ==
  [order |-> NoOrder, asg |-> <<>>, logs |-> <<>>, timer |-> NoTimer, timeouts |-> {},
   service |-> NewService]

\* the ids that generateId gave to the orders of the process
OrderIds == {"order", "otherOrder"}

\* the Maps of a process that holds no order
EmptyStore ==
  [ordersCollection     |-> [id \in OrderIds |->
                               [order |-> NoOrder, asg |-> <<>>, logs |-> <<>>]],
   assignmentTimers     |-> [id \in OrderIds |-> NoTimer],
   timeouts             |-> {},
   notificationCounters |-> [id \in OrderIds |-> 0],
   waiting              |-> [id \in OrderIds |-> 0]]

\* no calls in flight
NoPre == [w |-> EmptyWorld, calls |-> <<>>]

\* The world a handler works on
World ==
  [order |-> order, asg |-> driverAssignments, logs |-> reassignmentLogs,
   timer |-> assignmentTimers, timeouts |-> timeouts, service |-> service]

\* driverAssignments.find(a => a.driverId === d && a.status === PENDING):
\* the index of the first such entry, 0 when there is none
FindPending(asg, d) ==
  LET S == {i \in 1..Len(asg) : asg[i].driverId = d /\ asg[i].status = "pending"}
  IN IF S = {} THEN 0 ELSE CHOOSE i \in S : \A j \in S : i <= j

\* Order.findById: a new Order object holding a copy of the stored scalars
findById(w) == w.order

\* Order.save: ordersCollection.set(this._id, this)
save(w, o) == [w EXCEPT !.order = o]

\* addDriverAssignment that counts the first offer as a reassignment
addDriverAssignment_CountsFirst(w, o, d) ==
  LET asg == Append(w.asg, [driverId |-> d, status |-> "pending"])
      o2  == [o EXCEPT !.currentDriverId = d,
                       !.reassignmentCount = Len(asg)]
  IN [w |-> save([w EXCEPT !.asg = asg], o2), o |-> o2, threw |-> FALSE]

\* addDriverAssignment that leaves reassignmentCount as it was
addDriverAssignment_KeepsCount(w, o, d) ==
  LET asg == Append(w.asg, [driverId |-> d, status |-> "pending"])
      o2  == [o EXCEPT !.currentDriverId = d]
  IN [w |-> save([w EXCEPT !.asg = asg], o2), o |-> o2, threw |-> FALSE]

\* Order.addDriverAssignment
addDriverAssignment(w, o, d) ==
  LET asg == Append(w.asg, [driverId |-> d, status |-> "pending"])
      o2  == [o EXCEPT !.currentDriverId = d,
                       !.reassignmentCount = Len(asg) - 1]
  IN [w |-> save([w EXCEPT !.asg = asg], o2), o |-> o2, threw |-> FALSE]

\* recordDriverResponse that looks the entry up by driver id only, whatever
\* its status
recordDriverResponse_AnyEntry(w, o, d, status) ==
  LET S == {j \in 1..Len(w.asg) : w.asg[j].driverId = d}
      i == IF S = {} THEN 0 ELSE CHOOSE j \in S : \A k \in S : j <= k
  IN IF i = 0
       THEN [w |-> w, o |-> o, threw |-> TRUE]
       ELSE LET asg == [w.asg EXCEPT ![i].status = status]
                o2  == IF status = "accepted"
                         THEN [o EXCEPT !.status = "accepted"]
                         ELSE o
            IN [w |-> save([w EXCEPT !.asg = asg], o2), o |-> o2, threw |-> FALSE]

\* Order.recordDriverResponse
recordDriverResponse(w, o, d, status) ==
  LET i == FindPending(w.asg, d)
  IN IF i = 0
       THEN [w |-> w, o |-> o, threw |-> TRUE]
       ELSE LET asg == [w.asg EXCEPT ![i].status = status]
                o2  == IF status = "accepted"
                         THEN [o EXCEPT !.status = "accepted"]
                         ELSE o
            IN [w |-> save([w EXCEPT !.asg = asg], o2), o |-> o2, threw |-> FALSE]

\* recordReassignment that forgets `this.reassignmentCount += 1`
recordReassignment_NoCount(w, o, previousDriverId, newDriverId, reason) ==
  LET i    == FindPending(w.asg, previousDriverId)
      asg1 == IF i = 0 THEN w.asg ELSE [w.asg EXCEPT ![i].status = "timed_out"]
      asg2 == Append(asg1, [driverId |-> newDriverId, status |-> "pending"])
      logs == Append(w.logs, [previousDriverId |-> previousDriverId,
                              newDriverId |-> newDriverId, reason |-> reason])
      o2   == [o EXCEPT !.currentDriverId = newDriverId]
  IN [w |-> save([w EXCEPT !.asg = asg2, !.logs = logs], o2), o |-> o2,
      threw |-> FALSE]

\* recordReassignment that looks the previous entry up by driver id only,
\* whatever its status
recordReassignment_AnyStatus(w, o, previousDriverId, newDriverId, reason) ==
  LET S    == {j \in 1..Len(w.asg) : w.asg[j].driverId = previousDriverId}
      i    == IF S = {} THEN 0 ELSE CHOOSE j \in S : \A k \in S : j <= k
      asg1 == IF i = 0 THEN w.asg ELSE [w.asg EXCEPT ![i].status = "timed_out"]
      asg2 == Append(asg1, [driverId |-> newDriverId, status |-> "pending"])
      logs == Append(w.logs, [previousDriverId |-> previousDriverId,
                              newDriverId |-> newDriverId, reason |-> reason])
      o2   == [o EXCEPT !.currentDriverId = newDriverId,
                        !.reassignmentCount = o.reassignmentCount + 1]
  IN [w |-> save([w EXCEPT !.asg = asg2, !.logs = logs], o2), o |-> o2,
      threw |-> FALSE]

\* recordReassignment that forgets `this.currentDriverId = newDriverId`
recordReassignment_KeepsDriver(w, o, previousDriverId, newDriverId, reason) ==
  LET i    == FindPending(w.asg, previousDriverId)
      asg1 == IF i = 0 THEN w.asg ELSE [w.asg EXCEPT ![i].status = "timed_out"]
      asg2 == Append(asg1, [driverId |-> newDriverId, status |-> "pending"])
      logs == Append(w.logs, [previousDriverId |-> previousDriverId,
                              newDriverId |-> newDriverId, reason |-> reason])
      o2   == [o EXCEPT !.reassignmentCount = o.reassignmentCount + 1]
  IN [w |-> save([w EXCEPT !.asg = asg2, !.logs = logs], o2), o |-> o2,
      threw |-> FALSE]

\* Order.recordReassignment
recordReassignment(w, o, previousDriverId, newDriverId, reason) ==
  LET i    == FindPending(w.asg, previousDriverId)
      asg1 == IF i = 0 THEN w.asg ELSE [w.asg EXCEPT ![i].status = "timed_out"]
      asg2 == Append(asg1, [driverId |-> newDriverId, status |-> "pending"])
      logs == Append(w.logs, [previousDriverId |-> previousDriverId,
                              newDriverId |-> newDriverId, reason |-> reason])
      o2   == [o EXCEPT !.currentDriverId = newDriverId,
                        !.reassignmentCount = o.reassignmentCount + 1]
  IN [w |-> save([w EXCEPT !.asg = asg2, !.logs = logs], o2), o |-> o2,
      threw |-> FALSE]

\* markAsTimedOut that forgets `this.timeoutAt = new Date()`
markAsTimedOut_NoTimeoutAt(w, o) ==
  LET o2 == [o EXCEPT !.status = "timeout"]
  IN [w |-> save(w, o2), o |-> o2, threw |-> FALSE]

\* markAsTimedOut that forgets `this.status = OrderStatus.TIMEOUT`
markAsTimedOut_KeepsStatus(w, o) ==
  LET o2 == [o EXCEPT !.timeoutAt = TRUE]
  IN [w |-> save(w, o2), o |-> o2, threw |-> FALSE]

\* Order.markAsTimedOut
markAsTimedOut(w, o) ==
  LET o2 == [o EXCEPT !.status = "timeout", !.timeoutAt = TRUE]
  IN [w |-> save(w, o2), o |-> o2, threw |-> FALSE]

\* ------------------------------------------------ OrderAssignmentService
\* clearTimeout(this.assignmentTimers.get(orderId)): the timeout whose handle
\* the map holds is no longer scheduled (nothing happens when it has fired)
clearTimeout(w) ==
  IF w.timer.set /\ w.timer.armed THEN w.timeouts \ {w.timer.driverId}
                                  ELSE w.timeouts

\* setupAutoReassignment without the clearTimeout of the existing entry
setupAutoReassignment_NoClear(w, d) ==
  [w EXCEPT !.timer = [set |-> TRUE, driverId |-> d, armed |-> TRUE,
                       delay |-> w.service.assignmentTimeout],
            !.timeouts = w.timeouts \cup {d}]

\* setupAutoReassignment: clearTimeout of the entry, if any, then a new timer
\* of this.assignmentTimeout milliseconds whose callback holds driverId, stored
\* in the map
setupAutoReassignment(w, d) ==
  [w EXCEPT !.timer = [set |-> TRUE, driverId |-> d, armed |-> TRUE,
                       delay |-> w.service.assignmentTimeout],
            !.timeouts = clearTimeout(w) \cup {d}]

\* clearTimeout without assignmentTimers.delete(orderId)
clearTimer_NoDelete(w) ==
  [w EXCEPT !.timer.armed = FALSE, !.timeouts = clearTimeout(w)]

\* if (assignmentTimers.has(orderId)) { clearTimeout(...); assignmentTimers.delete(orderId) }
clearTimer(w) == [w EXCEPT !.timer = NoTimer, !.timeouts = clearTimeout(w)]

\* getNextAvailableDriver without the filter on previousDriverIds
getNextAvailableDriver_NoFilter(w) ==
  IF Len(w.asg) >= w.service.maxAssignmentAttempts THEN NoDriver
  ELSE availableDrivers[1]

\* getNextAvailableDriver, the part after its own findById: the first pool
\* driver that is in no assignment, null when the attempts are used up
getNextAvailableDriver(w) ==
  LET asg == w.asg
      previousDriverIds == {asg[i].driverId : i \in 1..Len(asg)}
      S == {k \in 1..Len(availableDrivers) :
              availableDrivers[k] \notin previousDriverIds}
  IN IF Len(asg) >= w.service.maxAssignmentAttempts THEN NoDriver
     ELSE IF S = {} THEN NoDriver
     ELSE availableDrivers[CHOOSE k \in S : \A j \in S : k <= j]

\* ------------------------------------- OpenAIService, notification service
\* the query types of generateOrderStatusMessage
QueryTypes == {"general_status", "reassignment_reason", "delay_explanation",
               "timeout_explanation"}

\* who waits for the text: notifyCustomerAboutOrderStatus or handleCustomerChatbotQuery
Callers == {"notify", "chatbot"}

\* no request waits for the API
NoneInFlight == [c \in Callers |-> [q \in QueryTypes |-> 0]]

RECURSIVE SumOver(_, _)
SumOver(f, S) ==
  IF S = {} THEN 0
  ELSE LET x == CHOOSE y \in S : TRUE IN f[x] + SumOver(f, S \ {x})

\* number of requests that wait for the API
InFlightCount(fl) ==
  SumOver([c \in Callers |-> SumOver(fl[c], QueryTypes)], Callers)

\* no call has returned yet
NoResult == [caller |-> "none", success |-> FALSE, skipped |-> FALSE,
             queryType |-> "none", message |-> "none"]

\* getFallbackMessage that has lost its case for timeout_explanation
getFallbackMessage_NoTimeoutCase(queryType) ==
  CASE queryType = "reassignment_reason" -> "fallback reassignment_reason"
    [] queryType = "delay_explanation"   -> "fallback delay_explanation"
    [] OTHER                             -> "fallback default"

\* OpenAIService.getFallbackMessage: the fixed text of the query type
getFallbackMessage(queryType) ==
  CASE queryType = "reassignment_reason" -> "fallback reassignment_reason"
    [] queryType = "delay_explanation"   -> "fallback delay_explanation"
    [] queryType = "timeout_explanation" -> "fallback timeout_explanation"
    [] OTHER                             -> "fallback default"

\* OpenAIService.generateOrderStatusMessage once the API call has ended:
\* the generated text, or the fallback text when the call failed or timed out
\* (the catch block returns it)
generateOrderStatusMessage(queryType, apiOk) ==
  IF apiOk THEN "generated" ELSE getFallbackMessage(queryType)

\* The notification service: counter of the order, requests in flight, last result
Notifier ==
  [counter |-> notificationCounters, inFlight |-> inFlight, result |-> lastResult]

\* getNotificationCount(orderId) >= maxNotificationsPerOrder
shouldLimitNotifications(n) == n.counter >= maxNotificationsPerOrder

\* incrementNotificationCounter
incrementNotificationCounter(n) == [n EXCEPT !.counter = n.counter + 1]

\* notifyCustomerAboutOrderStatus that counts the notifications it drops at
\* the limit
notifyCustomerAboutOrderStatus_CountsDropped(n, w, queryType) ==
  IF shouldLimitNotifications(n)
    THEN [n EXCEPT !.counter = n.counter + 1,
                   !.result = [caller |-> "notify", success |-> FALSE,
                               skipped |-> FALSE, queryType |-> queryType,
                               message |-> "Notification limit reached for this order"]]
  ELSE IF ~findById(w).exists
    THEN [n EXCEPT !.result = [caller |-> "notify", success |-> FALSE,
                               skipped |-> FALSE, queryType |-> queryType,
                               message |-> "Order not found"]]
  ELSE [n EXCEPT !.inFlight["notify"][queryType] = @ + 1]

\* notifyCustomerAboutOrderStatus up to its await of the text generation: the
\* limit check, getOrderStatus (which reads the order at once and throws when
\* there is none; the catch block returns the failure), then the API request
notifyCustomerAboutOrderStatus(n, w, queryType) ==
  IF shouldLimitNotifications(n)
    THEN [n EXCEPT !.result = [caller |-> "notify", success |-> FALSE,
                               skipped |-> FALSE, queryType |-> queryType,
                               message |-> "Notification limit reached for this order"]]
  ELSE IF ~findById(w).exists
    THEN [n EXCEPT !.result = [caller |-> "notify", success |-> FALSE,
                               skipped |-> FALSE, queryType |-> queryType,
                               message |-> "Order not found"]]
  ELSE [n EXCEPT !.inFlight["notify"][queryType] = @ + 1]

\* notifyCustomerAboutOrderStatus after its await of the text generation
notifyCustomerAboutOrderStatusDone(n, queryType, apiOk) ==
  LET n1 == [n EXCEPT !.inFlight["notify"][queryType] = @ - 1]
      n2 == incrementNotificationCounter(n1)
  IN [n2 EXCEPT !.result = [caller |-> "notify", success |-> TRUE, skipped |-> FALSE,
                            queryType |-> queryType,
                            message |-> generateOrderStatusMessage(queryType, apiOk)]]

\* notifyCustomerAboutReassignment that does not skip the first reassignment
notifyCustomerAboutReassignment_NoSkip(n, w, enabled, reassignmentCount) ==
  IF ~enabled
    THEN [n EXCEPT !.result = [caller |-> "notify", success |-> FALSE,
                               skipped |-> TRUE, queryType |-> "reassignment_reason",
                               message |-> "none"]]
    ELSE notifyCustomerAboutOrderStatus(n, w, "reassignment_reason")

\* notifyCustomerAboutReassignment
notifyCustomerAboutReassignment(n, w, enabled, reassignmentCount) ==
  IF ~enabled \/ reassignmentCount <= 1
    THEN [n EXCEPT !.result = [caller |-> "notify", success |-> FALSE,
                               skipped |-> TRUE, queryType |-> "reassignment_reason",
                               message |-> "none"]]
    ELSE notifyCustomerAboutOrderStatus(n, w, "reassignment_reason")

\* handleCustomerChatbotQuery up to its await of the text generation
handleCustomerChatbotQuery(n, w, queryType) ==
  IF ~findById(w).exists
    THEN [n EXCEPT !.result = [caller |-> "chatbot", success |-> FALSE,
                               skipped |-> FALSE, queryType |-> queryType,
                               message |-> "Order not found"]]
    ELSE [n EXCEPT !.inFlight["chatbot"][queryType] = @ + 1]

\* handleCustomerChatbotQuery after its await of the text generation
handleCustomerChatbotQueryDone(n, queryType, apiOk) ==
  [n EXCEPT !.inFlight["chatbot"][queryType] = @ - 1,
            !.result = [caller |-> "chatbot", success |-> TRUE, skipped |-> FALSE,
                        queryType |-> queryType,
                        message |-> generateOrderStatusMessage(queryType, apiOk)]]

\* ------------------------------------------------------- calls in flight
\* A call in flight: its arguments, its own Order object (o), the result of
\* getNextAvailableDriver, and the segment it executes next (pc)
IdleProc ==
  [pc |-> "idle", kind |-> "none", driverId |-> NoDriver, accepted |-> FALSE,
   o |-> NoOrder, nextDriver |-> NoDriver, outcome |-> "none", due |-> 0]

\* The synchronous start of every handler: `await Order.findById(orderId)`
\* reads the collection at once and suspends
Call(w, kind, d, accepted) ==
  [w |-> w,
   p |-> [IdleProc EXCEPT !.pc = "found", !.kind = kind, !.driverId = d,
                          !.accepted = accepted, !.o = findById(w),
                          !.due = TurnsFindById]]

\* the handler returns or throws
Return(w, p, outcome) == [w |-> w, p |-> [p EXCEPT !.pc = "done", !.outcome = outcome]]

\* the handler suspends at an await that takes `turns` microtask turns
Await(w, p, pc, turns) ==
  [w |-> w, p |-> [p EXCEPT !.pc = pc, !.due = p.due + turns]]

\* The outcomes with which a handler throws (its catch block logs and rethrows):
\* `Order not found`, `Cannot assign: Order .. has status ..`, the TypeError of
\* `order.currentDriverId.toString()` on null, `Driver .. is not currently
\* assigned to order ..`, `No pending assignment found for this driver`
Thrown == {"NotFound", "InvalidState", "TypeError", "NotCurrentDriver",
           "NoPendingAssignment"}

\* assignOrderToDriver without the check of order.status
assignOrderToDriver_NoStatusCheck(f) ==
  LET w == f.w
      p == f.p
  IN CASE p.pc = "found" ->
            IF ~p.o.exists THEN Return(w, p, "NotFound")
            ELSE LET r == addDriverAssignment(w, p.o, p.driverId)
                 IN Await(r.w, [p EXCEPT !.o = r.o], "saved", TurnsSave)
       [] p.pc = "saved" ->
            Return(setupAutoReassignment(w, p.driverId), p, "assigned")

\* assignOrderToDriver, one segment
assignOrderToDriver(f) ==
  LET w == f.w
      p == f.p
  IN CASE p.pc = "found" ->
            IF ~p.o.exists THEN Return(w, p, "NotFound")
            ELSE IF p.o.status # "pending" THEN Return(w, p, "InvalidState")
            ELSE LET r == addDriverAssignment(w, p.o, p.driverId)
                 IN Await(r.w, [p EXCEPT !.o = r.o], "saved", TurnsSave)
       [] p.pc = "saved" ->
            Return(setupAutoReassignment(w, p.driverId), p, "assigned")

\* handleDriverTimeoutReassignment, one segment
handleDriverTimeoutReassignment(f) ==
  LET w == f.w
      p == f.p
  IN CASE p.pc = "found" ->
            IF ~p.o.exists THEN Return(w, p, "NotFound")
            ELSE IF FindPending(w.asg, p.driverId) = 0 THEN Return(w, p, "noop")
            ELSE Await(w, p, "next", TurnsFindById)
       [] p.pc = "next" ->
            Await(w, [p EXCEPT !.nextDriver = getNextAvailableDriver(w)], "chosen",
                  TurnsReturn)
       [] p.pc = "chosen" ->
            IF p.nextDriver = NoDriver
              THEN LET r == markAsTimedOut(w, p.o)
                   IN Await(r.w, [p EXCEPT !.o = r.o], "timedOut", TurnsSave)
              ELSE LET r == recordReassignment(w, p.o, p.driverId, p.nextDriver, "TIMEOUT")
                   IN Await(r.w, [p EXCEPT !.o = r.o], "saved", TurnsSave)
       [] p.pc = "timedOut" ->
            Return(clearTimer(w), p, "exhausted")
       [] p.pc = "saved" ->
            Return(setupAutoReassignment(w, p.nextDriver), p, "reassigned")

\* handleDriverResponse that clears the timer before it checks that the driver
\* is the current assignee
handleDriverResponse_ClearsFirst(f) ==
  LET w == f.w
      p == f.p
  IN CASE p.pc = "found" ->
            IF ~p.o.exists THEN Return(w, p, "NotFound")
            ELSE IF p.o.currentDriverId = NoDriver THEN Return(w, p, "TypeError")
            ELSE IF p.o.currentDriverId # p.driverId THEN Return(clearTimer(w), p, "NotCurrentDriver")
            ELSE LET w1 == clearTimer(w)
                     r  == recordDriverResponse(w1, p.o, p.driverId,
                             IF p.accepted THEN "accepted" ELSE "rejected")
                 IN IF r.threw THEN Return(w1, p, "NoPendingAssignment")
                    ELSE Await(r.w, [p EXCEPT !.o = r.o], "recorded", TurnsSave)
       [] p.pc = "recorded" ->
            IF p.accepted THEN Return(w, p, "accepted")
            ELSE Await(w, p, "next", TurnsFindById)
       [] p.pc = "next" ->
            Await(w, [p EXCEPT !.nextDriver = getNextAvailableDriver(w)], "chosen",
                  TurnsReturn)
       [] p.pc = "chosen" ->
            IF p.nextDriver = NoDriver
              THEN LET r == markAsTimedOut(w, p.o)
                   IN Await(r.w, [p EXCEPT !.o = r.o], "timedOut", TurnsSave)
              ELSE LET r == recordReassignment(w, p.o, p.driverId, p.nextDriver, "REJECTION")
                   IN Await(r.w, [p EXCEPT !.o = r.o], "saved", TurnsSave)
       [] p.pc = "timedOut" ->
            Return(w, p, "exhausted")
       [] p.pc = "saved" ->
            Return(setupAutoReassignment(w, p.nextDriver), p, "reassigned")

\* handleDriverResponse, one segment
handleDriverResponse(f) ==
  LET w == f.w
      p == f.p
  IN CASE p.pc = "found" ->
            IF ~p.o.exists THEN Return(w, p, "NotFound")
            ELSE IF p.o.currentDriverId = NoDriver THEN Return(w, p, "TypeError")
            ELSE IF p.o.currentDriverId # p.driverId THEN Return(w, p, "NotCurrentDriver")
            ELSE LET w1 == clearTimer(w)
                     r  == recordDriverResponse(w1, p.o, p.driverId,
                             IF p.accepted THEN "accepted" ELSE "rejected")
                 IN IF r.threw THEN Return(w1, p, "NoPendingAssignment")
                    ELSE Await(r.w, [p EXCEPT !.o = r.o], "recorded", TurnsSave)
       [] p.pc = "recorded" ->
            IF p.accepted THEN Return(w, p, "accepted")
            ELSE Await(w, p, "next", TurnsFindById)
       [] p.pc = "next" ->
            Await(w, [p EXCEPT !.nextDriver = getNextAvailableDriver(w)], "chosen",
                  TurnsReturn)
       [] p.pc = "chosen" ->
            IF p.nextDriver = NoDriver
              THEN LET r == markAsTimedOut(w, p.o)
                   IN Await(r.w, [p EXCEPT !.o = r.o], "timedOut", TurnsSave)
              ELSE LET r == recordReassignment(w, p.o, p.driverId, p.nextDriver, "REJECTION")
                   IN Await(r.w, [p EXCEPT !.o = r.o], "saved", TurnsSave)
       [] p.pc = "timedOut" ->
            Return(w, p, "exhausted")
       [] p.pc = "saved" ->
            Return(setupAutoReassignment(w, p.nextDriver), p, "reassigned")

\* One segment of the call in flight
Step(f) ==
  CASE f.p.kind = "assign"   -> assignOrderToDriver(f)
    [] f.p.kind = "timeout"  -> handleDriverTimeoutReassignment(f)
    [] f.p.kind = "response" -> handleDriverResponse(f)

\* The call runs alone, from its first segment to its return
RECURSIVE Run(_)
Run(f) == IF f.p.pc = "done" THEN f ELSE Run(Step(f))

\* The whole call on world w
Exec(w, kind, d, accepted) == Run(Call(w, kind, d, accepted))

\* ------------------------------------------------------------------ Init
Init ==
  /\ order = NoOrder
  /\ driverAssignments = <<>>
  /\ reassignmentLogs = <<>>
  /\ assignmentTimers = NoTimer
  /\ timeouts = {}
  /\ service = NewService
  /\ store = EmptyStore
  /\ clientOffers = 0
  /\ procs = <<>>
  /\ pre = NoPre
  /\ together = 0
  /\ enableReassignmentNotifications = FALSE   \* ENABLE_REASSIGNMENT_NOTIFICATIONS unset
  /\ notificationCounters = 0
  /\ inFlight = NoneInFlight
  /\ reassignmentRequests = <<>>
  /\ lastResult = NoResult

\* the world w becomes the state
SetWorld(w) ==
  /\ order' = w.order
  /\ driverAssignments' = w.asg
  /\ reassignmentLogs' = w.logs
  /\ assignmentTimers' = w.timer
  /\ timeouts' = w.timeouts
  /\ service' = w.service        \* no handler assigns the fields of the service

Quiescent == procs = <<>>

\* --------------------------------------------------------------- actions
\* orderController.createOrder: new Order({... status: PENDING}).save()
CreateOrder ==
  /\ Quiescent
  /\ ~order.exists
  /\ order' = NewOrder
  /\ UNCHANGED <<store, driverAssignments, reassignmentLogs, assignmentTimers, timeouts,
                 service, clientOffers, procs, pre, together, notifyVars>>

\* a client calls assignOrderToDriver(orderId, d)
AssignOrderToDriver(d) ==
  /\ Quiescent
  /\ LET f == Exec(World, "assign", d, FALSE)
     IN /\ f.p.outcome = "assigned" => clientOffers < MaxClientOffers
        /\ SetWorld(f.w)
        /\ clientOffers' = IF f.p.outcome = "assigned" THEN clientOffers + 1
                                                      ELSE clientOffers
  /\ UNCHANGED <<store, procs, pre, together, notifyVars>>

\* a driver answers: handleDriverResponse(orderId, d, accepted)
HandleDriverResponse(d, accepted) ==
  /\ Quiescent
  /\ LET f == Exec(World, "response", d, accepted)
     IN SetWorld(f.w)
  /\ UNCHANGED <<store, clientOffers, procs, pre, together, notifyVars>>

\* the callback of the timeout armed for driver d runs
\* handleDriverTimeoutReassignment(orderId, d); the timeout is no longer
\* scheduled, and its handle stays in the map until it is replaced or deleted
timeoutCallback(w, d) ==
  LET inMap == w.timer.armed /\ w.timer.driverId = d
      w1 == [w EXCEPT !.timeouts = @ \ {d},
                      !.timer.armed = IF inMap THEN FALSE ELSE @]
  IN Exec(w1, "timeout", d, FALSE).w

\* a scheduled timeout of the order fires
DeadlineFires ==
  /\ Quiescent
  /\ \E d \in timeouts : SetWorld(timeoutCallback(World, d))
  /\ UNCHANGED <<store, clientOffers, procs, pre, together, notifyVars>>

\* ---------------------------------------- calls issued in the same tick
\* The calls about the offer of driver d that may overlap: a response, and
\* either the deadline handler or another response
Response(d, accepted) == [kind |-> "response", driverId |-> d, accepted |-> accepted]
Deadline(d) == [kind |-> "timeout", driverId |-> d, accepted |-> FALSE]
OverlappingCalls(d) == {Response(d, TRUE), Response(d, FALSE), Deadline(d)}

\* Two calls are issued one right after the other, c1 first, before any
\* continuation runs: each executes its findById and suspends at its first await
IssueTogether(c1, c2) ==
  /\ Quiescent
  /\ order.exists
  /\ "response" \in {c1.kind, c2.kind}
  /\ together < MaxTogether
  /\ together' = together + 1
  /\ procs' = <<Call(World, c1.kind, c1.driverId, c1.accepted).p,
                Call(World, c2.kind, c2.driverId, c2.accepted).p>>
  /\ pre' = [w |-> World, calls |-> <<c1, c2>>]
  /\ UNCHANGED <<store, order, driverAssignments, reassignmentLogs, assignmentTimers,
                 timeouts, service, clientOffers, notifyVars>>

\* Call i is the one whose continuation is first in the microtask queue
FirstInQueue(i) ==
  \A j \in DOMAIN procs :
    (j # i /\ procs[j].pc # "done") =>
      \/ procs[i].due < procs[j].due
      \/ procs[i].due = procs[j].due /\ i < j

\* The continuation of call i runs up to its next await (or to its return)
Resume(i) ==
  /\ i \in DOMAIN procs
  /\ procs[i].pc # "done"
  /\ FirstInQueue(i)
  /\ LET f == Step([w |-> World, p |-> procs[i]])
     IN SetWorld(f.w) /\ procs' = [procs EXCEPT ![i] = f.p]
  /\ UNCHANGED <<store, clientOffers, pre, together, notifyVars>>

AllDone == procs # <<>> /\ \A i \in DOMAIN procs : procs[i].pc = "done"

\* Both calls have returned
Settle ==
  /\ AllDone
  /\ procs' = <<>>
  /\ pre' = NoPre
  /\ UNCHANGED <<store, order, driverAssignments, reassignmentLogs, assignmentTimers,
                 timeouts, service, clientOffers, together, notifyVars>>

NextConc ==
  \/ CreateOrder
  \/ \E d \in Drivers : AssignOrderToDriver(d)
  \/ \E d \in Drivers, accepted \in BOOLEAN : HandleDriverResponse(d, accepted)
  \/ DeadlineFires
  \/ \E c1, c2 \in OverlappingCalls(order.currentDriverId) : IssueTogether(c1, c2)
  \/ \E i \in 1..2 : Resume(i)
  \/ Settle

SpecConc == Init /\ [][NextConc]_vars

\* the calls c1 then c2, each run alone, from world w
Serial(w, c1, c2) ==
  Exec(Exec(w, c1.kind, c1.driverId, c1.accepted).w,
       c2.kind, c2.driverId, c2.accepted).w

Next ==
  \/ CreateOrder
  \/ \E d \in Drivers : AssignOrderToDriver(d)
  \/ \E d \in Drivers, accepted \in BOOLEAN : HandleDriverResponse(d, accepted)
  \/ DeadlineFires

Spec == Init /\ [][Next]_vars

\* Spec with the guarantee of setTimeout: no timeout stays scheduled for
\* ever. A timeout leaves `timeouts` only when its callback runs
\* (DeadlineFires) or when clearTimeout disarms it, so this is weak fairness
\* of DeadlineFires, stated on the state
SpecLive == Spec /\ \A d \in Drivers : []<>(d \notin timeouts)

\* ------------------------------------------- service-wide configuration
\* the values the fields of the exported service object are given
TimeoutValues == {assignmentTimeout, assignmentTimeout \div 2}
AttemptValues == {maxAssignmentAttempts, maxAssignmentAttempts - 2}

\* a holder of the exported service object assigns its fields after the order
\* was created, as `orderAssignmentService.assignmentTimeout = 15000` does
SetServiceConfig(timeout, attempts) ==
  /\ Quiescent
  /\ order.exists
  /\ service' = [assignmentTimeout |-> timeout, maxAssignmentAttempts |-> attempts]
  /\ service' # service
  /\ UNCHANGED <<store, order, driverAssignments, reassignmentLogs, assignmentTimers,
                 timeouts, clientOffers, procs, pre, together, notifyVars>>

NextConfig ==
  \/ CreateOrder
  \/ \E d \in Drivers : AssignOrderToDriver(d)
  \/ \E d \in Drivers, accepted \in BOOLEAN : HandleDriverResponse(d, accepted)
  \/ DeadlineFires
  \/ \E timeout \in TimeoutValues, attempts \in AttemptValues :
       SetServiceConfig(timeout, attempts)

SpecConfig == Init /\ [][NextConfig]_vars

\* ------------------------------------- controller and notification service
\* the state after construction, ENABLE_REASSIGNMENT_NOTIFICATIONS set or not
InitNotify ==
  /\ order = NoOrder
  /\ driverAssignments = <<>>
  /\ reassignmentLogs = <<>>
  /\ assignmentTimers = NoTimer
  /\ timeouts = {}
  /\ service = NewService
  /\ store = EmptyStore
  /\ clientOffers = 0
  /\ procs = <<>>
  /\ pre = NoPre
  /\ together = 0
  /\ enableReassignmentNotifications \in BOOLEAN
  /\ notificationCounters = 0
  /\ inFlight = NoneInFlight
  /\ reassignmentRequests = <<>>
  /\ lastResult = NoResult

\* the notification service n becomes the state
SetNotifier(n) ==
  /\ notificationCounters' = n.counter
  /\ inFlight' = n.inFlight
  /\ lastResult' = n.result

\* the client offers the order, once, to the first driver of the pool (the
\* notifications depend on the reassignments, not on who was offered first)
OfferOnce ==
  /\ clientOffers = 0
  /\ AssignOrderToDriver(availableDrivers[1])

\* an Error thrown by the services or the model: `new Error(message)`, which
\* has no statusCode (0 stands for undefined)
PlainError == [statusCode |-> 0]

\* notFound(message): new ApiError(404, message)
notFound == [statusCode |-> 404]

\* errorHandler: `err.statusCode || 500` is the status of the response
errorHandler(err) == IF err.statusCode # 0 THEN err.statusCode ELSE 500

\* The response of a controller whose service call ended with `outcome`:
\* res.status(200) after the call, next(error) in the catch block
ControllerStatus(outcome) ==
  IF outcome \in Thrown THEN errorHandler(PlainError) ELSE 200

\* a controller that awaits the notification and fails when it was not sent
orderController_handleDriverResponse_AwaitsNotification(w, n, enabled, d, accepted) ==
  LET f == Exec(w, "response", d, accepted)
      updatedOrder == f.p.o
      notifies == /\ f.p.outcome \notin Thrown
                  /\ ~accepted
                  /\ updatedOrder.reassignmentCount > 0
      n2 == notifyCustomerAboutReassignment(n, f.w, enabled,
                                            updatedOrder.reassignmentCount)
  IN [w |-> f.w,
      n |-> IF notifies THEN n2 ELSE n,
      requested |-> IF notifies THEN <<updatedOrder.reassignmentCount>> ELSE <<>>,
      status |-> IF notifies /\ n2.inFlight = n.inFlight
                   THEN errorHandler(PlainError)
                   ELSE ControllerStatus(f.p.outcome)]

\* orderController.handleDriverResponse: the service call, then, when the
\* driver rejected and the returned order has reassignmentCount > 0, the call
\* of notifyCustomerAboutReassignment, which is not awaited; then the response
orderController_handleDriverResponse(w, n, enabled, d, accepted) ==
  LET f == Exec(w, "response", d, accepted)
      updatedOrder == f.p.o
      notifies == /\ f.p.outcome \notin Thrown
                  /\ ~accepted
                  /\ updatedOrder.reassignmentCount > 0
      n2 == notifyCustomerAboutReassignment(n, f.w, enabled,
                                            updatedOrder.reassignmentCount)
  IN [w |-> f.w,
      n |-> IF notifies THEN n2 ELSE n,
      requested |-> IF notifies THEN <<updatedOrder.reassignmentCount>> ELSE <<>>,
      status |-> ControllerStatus(f.p.outcome)]

\* OrderAssignmentService.getOrderStatus: the outcome of the call
getOrderStatus(w) ==
  IF ~findById(w).exists THEN "NotFound" ELSE "status"

\* orderController.getOrderStatus: the HTTP status of the answer
orderController_getOrderStatus(w) ==
  [w |-> w, status |-> ControllerStatus(getOrderStatus(w))]

\* orderController.assignOrderToDriver with a driverId in the body
orderController_assignOrderToDriver(w, d) ==
  LET f == Exec(w, "assign", d, FALSE)
  IN [w |-> f.w, status |-> ControllerStatus(f.p.outcome)]

\* a driver answers through POST /:orderId/driver-response
ControllerDriverResponse(d, accepted) ==
  /\ Quiescent
  /\ LET r == orderController_handleDriverResponse(
                World, Notifier, enableReassignmentNotifications, d, accepted)
     IN /\ InFlightCount(r.n.inFlight) <= MaxInFlight
        /\ SetWorld(r.w)
        /\ SetNotifier(r.n)
        /\ reassignmentRequests' = reassignmentRequests \o r.requested
  /\ UNCHANGED <<store, clientOffers, procs, pre, together, enableReassignmentNotifications>>

\* chatController.handleChatQuery: handleCustomerChatbotQuery with the query
\* type that determineQueryType finds in the message
ChatQuery(queryType) ==
  /\ Quiescent
  /\ LET n == handleCustomerChatbotQuery(Notifier, World, queryType)
     IN /\ InFlightCount(n.inFlight) <= MaxInFlight
        /\ SetNotifier(n)
  /\ UNCHANGED <<store, order, driverAssignments, reassignmentLogs, assignmentTimers,
                 timeouts, service, clientOffers, procs, pre, together,
                 enableReassignmentNotifications, reassignmentRequests>>

\* the API call of a waiting request ends, with a text (apiOk) or with an
\* error or timeout; the caller continues after its await
ApiCallEnds(caller, queryType, apiOk) ==
  /\ inFlight[caller][queryType] > 0
  /\ SetNotifier(IF caller = "notify"
                   THEN notifyCustomerAboutOrderStatusDone(Notifier, queryType, apiOk)
                   ELSE handleCustomerChatbotQueryDone(Notifier, queryType, apiOk))
  /\ UNCHANGED <<store, order, driverAssignments, reassignmentLogs, assignmentTimers,
                 timeouts, service, clientOffers, procs, pre, together,
                 enableReassignmentNotifications, reassignmentRequests>>

NextNotify ==
  \/ CreateOrder
  \/ OfferOnce
  \/ \E d \in Drivers, accepted \in BOOLEAN : ControllerDriverResponse(d, accepted)
  \/ DeadlineFires
  \/ \E queryType \in QueryTypes : ChatQuery(queryType)
  \/ \E caller \in Callers, queryType \in QueryTypes, apiOk \in BOOLEAN :
       ApiCallEnds(caller, queryType, apiOk)

SpecNotify == InitNotify /\ [][NextNotify]_vars

\* ------------------------------------------------------- several orders
\* what the Maps hold under the key id, as the world of one order
WorldOf(st, id) ==
  [order    |-> st.ordersCollection[id].order,
   asg      |-> st.ordersCollection[id].asg,
   logs     |-> st.ordersCollection[id].logs,
   timer    |-> st.assignmentTimers[id],
   timeouts |-> {d \in Drivers : <<id, d>> \in st.timeouts},
   service  |-> service]

\* writes that use one timer entry for all orders instead of the key orderId
PutWorld_OneTimerEntry(st, id, w) ==
  [st EXCEPT !.ordersCollection[id] = [order |-> w.order, asg |-> w.asg, logs |-> w.logs],
             !.assignmentTimers = [i \in OrderIds |-> w.timer],
             !.timeouts = {t \in @ : t[1] # id} \cup {<<id, d>> : d \in w.timeouts}]

\* the writes of the handlers of order id: ordersCollection.set(this._id, this),
\* assignmentTimers.set(orderId, timer) and .delete(orderId), setTimeout and
\* clearTimeout of that order's handles
PutWorld(st, id, w) ==
  [st EXCEPT !.ordersCollection[id] = [order |-> w.order, asg |-> w.asg, logs |-> w.logs],
             !.assignmentTimers[id] = w.timer,
             !.timeouts = {t \in @ : t[1] # id} \cup {<<id, d>> : d \in w.timeouts}]

\* the notification service as the calls about order id see it
NotifierOf(st, id) ==
  [counter  |-> st.notificationCounters[id],
   inFlight |-> [NoneInFlight EXCEPT !["notify"]["reassignment_reason"] = st.waiting[id]],
   result   |-> NoResult]

\* notificationCounters.set(orderId, ..) and the waiting calls about order id
PutNotifier(st, id, n) ==
  [st EXCEPT !.notificationCounters[id] = n.counter,
             !.waiting[id] = n.inFlight["notify"]["reassignment_reason"]]

\* UNCHANGED for the variables of the single order
OneOrderVars ==
  <<order, driverAssignments, reassignmentLogs, assignmentTimers, timeouts, service,
    clientOffers, procs, pre, together, notifyVars>>

\* orderController.createOrder for the order that gets the id
StoreCreateOrder(id) ==
  /\ ~store.ordersCollection[id].order.exists
  /\ store' = PutWorld(store, id, [WorldOf(store, id) EXCEPT !.order = NewOrder])
  /\ UNCHANGED OneOrderVars

\* the client offers order id, once, to the first driver of the pool
StoreAssignOrderToDriver(id) ==
  /\ store.ordersCollection[id].asg = <<>>
  /\ store' = PutWorld(store, id,
                 orderController_assignOrderToDriver(WorldOf(store, id),
                                                     availableDrivers[1]).w)
  /\ UNCHANGED OneOrderVars

\* the driver that order id is offered to answers through the controller
StoreDriverResponse(id, accepted) ==
  /\ LET r == orderController_handleDriverResponse(
                WorldOf(store, id), NotifierOf(store, id),
                enableReassignmentNotifications,
                store.ordersCollection[id].order.currentDriverId, accepted)
     IN /\ InFlightCount(r.n.inFlight) <= MaxInFlight
        /\ store' = PutNotifier(PutWorld(store, id, r.w), id, r.n)
  /\ UNCHANGED OneOrderVars

\* a scheduled timeout of order id fires
StoreDeadlineFires(id) ==
  /\ \E d \in Drivers :
       /\ <<id, d>> \in store.timeouts
       /\ store' = PutWorld(store, id, timeoutCallback(WorldOf(store, id), d))
  /\ UNCHANGED OneOrderVars

\* the text generation of a waiting notification about order id ends
StoreApiCallEnds(id, apiOk) ==
  /\ store.waiting[id] > 0
  /\ store' = PutNotifier(store, id,
                 notifyCustomerAboutOrderStatusDone(NotifierOf(store, id),
                                                    "reassignment_reason", apiOk))
  /\ UNCHANGED OneOrderVars

NextStore ==
  \/ \E id \in OrderIds : StoreCreateOrder(id)
  \/ \E id \in OrderIds : StoreAssignOrderToDriver(id)
  \/ \E id \in OrderIds, accepted \in BOOLEAN : StoreDriverResponse(id, accepted)
  \/ \E id \in OrderIds : StoreDeadlineFires(id)
  \/ \E id \in OrderIds, apiOk \in BOOLEAN : StoreApiCallEnds(id, apiOk)

SpecStore == InitNotify /\ [][NextStore]_vars

\* ------------------------------------------------------------ properties
PendingEntries == {i \in 1..Len(driverAssignments) : driverAssignments[i].status = "pending"}

\* C1: at most one entry of driverAssignments is pending, and while the
\* order is pending that entry is the one of currentDriverId
C1_OnePendingOfCurrentDriver ==
  /\ Cardinality(PendingEntries) <= 1
  /\ order.status = "pending" =>
       \A i \in PendingEntries : driverAssignments[i].driverId = order.currentDriverId

\* C2: two calls for the order that interleave at their awaits leave the
\* world that running them one after the other (in one of the two orders)
\* leaves, and an acceptance that one of them recorded is still the stored status
C2_InterleavingIsSerializable ==
  AllDone =>
    /\ \/ World = Serial(pre.w, pre.calls[1], pre.calls[2])
       \/ World = Serial(pre.w, pre.calls[2], pre.calls[1])
    /\ (\E i \in DOMAIN procs : procs[i].outcome = "accepted")
         => order.status = "accepted"

\* the deadline of the pending offer of the timer's driver fires
DeadlineOfPendingOffer ==
  /\ assignmentTimers.armed
  /\ FindPending(driverAssignments, assignmentTimers.driverId) # 0
  /\ DeadlineFires

\* the current driver answers his pending offer
ResponseToPendingOffer(accepted) ==
  /\ order.exists
  /\ FindPending(driverAssignments, order.currentDriverId) # 0
  /\ HandleDriverResponse(order.currentDriverId, accepted)

\* C3: when the deadline firing has acted on the pending offer of a driver,
\* a response of that driver applied next (accepting or rejecting) changes
\* nothing in the order record.  (In the other order the response removes the
\* timer entry, so the deadline of that offer does not fire any more.)
C3_ResponseAfterDeadlineChangesNothing ==
  [][DeadlineOfPendingOffer =>
       \A accepted \in BOOLEAN :
         LET w == Exec(World', "response", assignmentTimers.driverId, accepted).w
         IN /\ w.order = order'
            /\ w.asg = driverAssignments'
            /\ w.logs = reassignmentLogs']_vars

\* C4: driverAssignments never has more than maxAssignmentAttempts entries
C4_AssignmentsWithinMaxAttempts ==
  Len(driverAssignments) <= maxAssignmentAttempts

\* C5: once the order is accepted or timed out, no operation appends an
\* entry to driverAssignments
C5_NoAppendAfterTerminal ==
  [][order.status \in {"accepted", "timeout"} =>
       Len(driverAssignments') = Len(driverAssignments)]_vars

\* C6: when a reassignment is needed and no next driver exists, the order
\* becomes timeout with timeoutAt set, no timer stays in the map, nothing is
\* offered; and a timed-out order has no armed timer and gets no new offer
C6_ExhaustionTimesOut ==
  /\ [][((DeadlineOfPendingOffer \/ ResponseToPendingOffer(FALSE))
          /\ getNextAvailableDriver(World) = NoDriver) =>
         /\ order'.status = "timeout"
         /\ order'.timeoutAt
         /\ ~assignmentTimers'.set
         /\ Len(driverAssignments') = Len(driverAssignments)]_vars
  /\ [][order.status = "timeout" =>
         /\ ~assignmentTimers'.armed
         /\ \A i \in 1..Len(driverAssignments') :
              i > Len(driverAssignments) => driverAssignments'[i].status # "pending"]_vars

\* the order timed out because the attempts were used up
C6_Witness ==
  /\ order.status = "timeout" /\ order.timeoutAt
  /\ ~assignmentTimers.set
  /\ Len(driverAssignments) = maxAssignmentAttempts
  /\ driverAssignments[1].status = "timed_out"
  /\ driverAssignments[2].status = "rejected"

\* C7: when the deadline fires for a driver whose assignment is pending, that
\* assignment becomes timed_out, whether or not a next driver exists
C7_DeadlineMarksTimedOut ==
  [][DeadlineOfPendingOffer =>
       driverAssignments'[FindPending(driverAssignments, assignmentTimers.driverId)].status
         = "timed_out"]_vars

\* C8: when the deadline fires for the offered driver and a next driver
\* exists, the order stays pending, the offered driver's entry is timed_out,
\* a pending entry of the next driver is appended and is the current driver,
\* one log entry (previous, next, TIMEOUT) is appended, reassignmentCount
\* grows by one and the timer is armed for the next driver
C8_DeadlineReassigns ==
  [][LET d == assignmentTimers.driverId
         i == FindPending(driverAssignments, d)
         n == getNextAvailableDriver(World)
     IN (DeadlineOfPendingOffer /\ order.status = "pending"
           /\ d = order.currentDriverId /\ n # NoDriver) =>
          /\ order'.status = "pending"
          /\ driverAssignments' =
               Append([driverAssignments EXCEPT ![i].status = "timed_out"],
                      [driverId |-> n, status |-> "pending"])
          /\ order'.currentDriverId = n
          /\ reassignmentLogs' =
               Append(reassignmentLogs,
                      [previousDriverId |-> d, newDriverId |-> n, reason |-> "TIMEOUT"])
          /\ order'.reassignmentCount = order.reassignmentCount + 1
          /\ assignmentTimers' = [set |-> TRUE, driverId |-> n, armed |-> TRUE,
                               delay |-> assignmentTimeout]]_vars

\* the deadline of the first offer fired and the order went to the next driver
C8_Witness ==
  /\ order.status = "pending"
  /\ Len(driverAssignments) = 2
  /\ driverAssignments[1].status = "timed_out"
  /\ driverAssignments[2] = [driverId |-> order.currentDriverId, status |-> "pending"]
  /\ reassignmentLogs = <<[previousDriverId |-> driverAssignments[1].driverId,
                           newDriverId |-> order.currentDriverId, reason |-> "TIMEOUT"]>>
  /\ order.reassignmentCount = 1
  /\ assignmentTimers = [set |-> TRUE, driverId |-> order.currentDriverId, armed |-> TRUE,
                               delay |-> assignmentTimeout]

\* the offered driver answers his first and only offer before the deadline
FirstOfferOpen ==
  /\ order.exists
  /\ Len(driverAssignments) = 1
  /\ driverAssignments[1] = [driverId |-> order.currentDriverId, status |-> "pending"]
  /\ assignmentTimers = [set |-> TRUE, driverId |-> order.currentDriverId, armed |-> TRUE,
                               delay |-> assignmentTimeout]

AcceptedAtFirstOffer ==
  /\ order.status = "accepted"
  /\ Len(driverAssignments) = 1
  /\ reassignmentLogs = <<>>
  /\ ~assignmentTimers.set

\* C9: when the offered driver accepts before the deadline, the order is
\* accepted with one assignment, no reassignment log and no entry in the timer
\* map, and it stays so: no reassignment happens later
C9_AcceptBeforeDeadline ==
  /\ [][(FirstOfferOpen /\ ResponseToPendingOffer(TRUE)) =>
         AcceptedAtFirstOffer']_vars
  /\ [][AcceptedAtFirstOffer => AcceptedAtFirstOffer']_vars

\* the first driver accepted
C9_Witness ==
  /\ AcceptedAtFirstOffer
  /\ driverAssignments[1] = [driverId |-> order.currentDriverId, status |-> "accepted"]

\* C10: when the offered driver rejects before the deadline and a next driver
\* exists, the same call reassigns the order to the next driver with a log
\* entry of reason REJECTION, the rejected entry stays rejected, and the only
\* timer of the order is armed for the next driver
C10_RejectionReassigns ==
  [][LET d == order.currentDriverId
         i == FindPending(driverAssignments, d)
         n == getNextAvailableDriver(World)
     IN (ResponseToPendingOffer(FALSE) /\ assignmentTimers.armed
           /\ assignmentTimers.driverId = d /\ n # NoDriver) =>
          /\ driverAssignments'[i].status = "rejected"
          /\ Len(driverAssignments') = Len(driverAssignments) + 1
          /\ driverAssignments'[Len(driverAssignments')] =
               [driverId |-> n, status |-> "pending"]
          /\ order'.currentDriverId = n
          /\ reassignmentLogs' =
               Append(reassignmentLogs,
                      [previousDriverId |-> d, newDriverId |-> n, reason |-> "REJECTION"])
          /\ assignmentTimers' = [set |-> TRUE, driverId |-> n, armed |-> TRUE,
                               delay |-> assignmentTimeout]]_vars

\* the first driver rejected and the order went to the next driver
C10_Witness ==
  /\ Len(driverAssignments) = 2
  /\ driverAssignments[1].status = "rejected"
  /\ driverAssignments[2].status = "pending"
  /\ reassignmentLogs[1].reason = "REJECTION"
  /\ assignmentTimers.armed /\ assignmentTimers.driverId = driverAssignments[2].driverId

\* one offer was made by a client and no driver has answered an offer: the
\* assignments after the first one come from deadline firings that found a
\* next driver
OneOfferThenDeadlines ==
  /\ clientOffers = 1
  /\ \A i \in 1..Len(driverAssignments) :
       driverAssignments[i].status \in {"pending", "timed_out"}

\* C11: after one assignOrderToDriver followed by N deadline firings that
\* each found a next driver (N = the assignments after the first one),
\* reassignmentCount is N and reassignmentLogs has N entries
C11_CountAfterDeadlines ==
  OneOfferThenDeadlines =>
    /\ order.reassignmentCount = Len(driverAssignments) - 1
    /\ Len(reassignmentLogs) = Len(driverAssignments) - 1
    /\ \A i \in 1..Len(reassignmentLogs) : reassignmentLogs[i].reason = "TIMEOUT"

\* one offer and three deadline firings
C11_Witness ==
  /\ OneOfferThenDeadlines
  /\ order.status = "pending"
  /\ Len(driverAssignments) = 4
  /\ \A i \in 1..3 : driverAssignments[i].status = "timed_out"
  /\ driverAssignments[4].status = "pending"
  /\ order.reassignmentCount = 3
  /\ Len(reassignmentLogs) = 3

\* the order record (scalars, assignments, logs) of world w is the stored one
SameOrderRecord(w) ==
  /\ w.order = order
  /\ w.asg = driverAssignments
  /\ w.logs = reassignmentLogs

\* driver d has an assignment that he already answered, and none pending
AlreadyResponded(d) ==
  /\ FindPending(driverAssignments, d) = 0
  /\ \E i \in 1..Len(driverAssignments) :
       /\ driverAssignments[i].driverId = d
       /\ driverAssignments[i].status \in {"accepted", "rejected"}

\* C12: a response from a driver who is not the current driver, and a second
\* response from the current driver whose assignment is already accepted or
\* rejected, return without an error and change nothing in the order
C12_StaleResponseAcknowledged ==
  (order.exists /\ order.currentDriverId # NoDriver) =>
    \A d \in Drivers, accepted \in BOOLEAN :
      (d # order.currentDriverId \/ AlreadyResponded(d)) =>
        LET f == Exec(World, "response", d, accepted)
        IN /\ f.p.outcome \notin Thrown
           /\ SameOrderRecord(f.w)

\* C13: once the order is in status timeout, handleDriverResponse from any
\* driver, accepting or rejecting, fails with an invalid-state error and the
\* status stays timeout
C13_ResponseAfterExhaustionInvalid ==
  order.status = "timeout" =>
    \A d \in Drivers, accepted \in BOOLEAN :
      LET f == Exec(World, "response", d, accepted)
      IN /\ f.p.outcome = "InvalidState"
         /\ f.w.order.status = "timeout"

\* C14: assignOrderToDriver throws not-found when the order does not exist and
\* invalid-state when its status is not pending, and then neither the order
\* record nor the timer of the order is changed
C14_AssignFailsWithoutEffect ==
  \A d \in Drivers :
    LET f == Exec(World, "assign", d, FALSE)
    IN /\ ~order.exists => (f.p.outcome = "NotFound" /\ f.w = World)
       /\ (order.exists /\ order.status # "pending") =>
            (f.p.outcome = "InvalidState" /\ f.w = World)
       /\ f.p.outcome \in Thrown => f.w = World

\* an offer for a timed-out order is refused with the invalid-state error and
\* leaves the world as it was
C14_Witness ==
  /\ order.status = "timeout"
  /\ LET f == Exec(World, "assign", availableDrivers[1], FALSE)
     IN f.p.outcome = "InvalidState" /\ f.w = World

\* C15: at most one timeout of the order is scheduled at any time, and it is
\* the one the map holds, armed for the newest offer: arming a timer disarms
\* the one armed before, so only the newest timer can fire
C15_OneArmedTimer ==
  /\ [](/\ Cardinality(timeouts) <= 1
        /\ timeouts = IF assignmentTimers.armed THEN {assignmentTimers.driverId} ELSE {}
        /\ assignmentTimers.armed => assignmentTimers.set)
  /\ [][assignmentTimers'.armed =>
         timeouts' = {driverAssignments'[Len(driverAssignments')].driverId}]_vars

\* a second offer was armed while the first offer, to another driver, was
\* still open: only the timer of the second offer is scheduled
C15_Witness ==
  /\ Len(driverAssignments) = 2
  /\ driverAssignments[1].status = "pending"
  /\ driverAssignments[1].driverId # driverAssignments[2].driverId
  /\ timeouts = {driverAssignments[2].driverId}

\* the order is reassigned to a new driver in this step
Reassigned == Len(reassignmentLogs') = Len(reassignmentLogs) + 1

\* the controller calls notifyCustomerAboutReassignment in this step
ReassignmentRequested == Len(reassignmentRequests') = Len(reassignmentRequests) + 1

\* C16: every reassignment to a new driver, by a deadline firing or by a
\* rejection, calls notifyCustomerAboutReassignment with the new
\* reassignmentCount (1 for the first deadline firing)
C16_ReassignmentHandsEvent ==
  [][Reassigned =>
       reassignmentRequests' = Append(reassignmentRequests, order'.reassignmentCount)]_vars

\* a notification of query type q is issued in this step: its request waits
\* for the text, or it has returned at once (cap reached)
NotificationIssued(q) ==
  \/ inFlight'["notify"][q] = inFlight["notify"][q] + 1
  \/ /\ lastResult' # lastResult
     /\ lastResult'.caller = "notify" /\ lastResult'.queryType = q
     /\ ~lastResult'.skipped

\* C17: whenever the order reaches status timeout, by a deadline firing or by
\* a rejection, a timeout_explanation notification is issued for it
C17_ExhaustionNotifies ==
  [][(order.status # "timeout" /\ order'.status = "timeout") =>
       NotificationIssued("timeout_explanation")]_vars

\* C18: a call of notifyCustomerAboutReassignment with reassignmentCount <= 1
\* issues no notification, and one with reassignmentCount >= 2 issues a
\* reassignment_reason notification through notifyCustomerAboutOrderStatus
C18_FirstReassignmentSilent ==
  [][ReassignmentRequested =>
       LET c == reassignmentRequests'[Len(reassignmentRequests')]
       IN /\ c <= 1 => (inFlight' = inFlight /\ lastResult'.skipped
                          /\ notificationCounters' = notificationCounters)
          /\ c >= 2 => NotificationIssued("reassignment_reason")]_vars

\* C19: the notification counter of the order (one per result with success
\* true) never exceeds maxNotificationsPerOrder, also with several
\* notifications in flight; at the cap a call returns success false at once
C19_NotificationCap ==
  /\ [](notificationCounters <= maxNotificationsPerOrder)
  /\ [][(ReassignmentRequested /\ enableReassignmentNotifications
          /\ reassignmentRequests'[Len(reassignmentRequests')] >= 2
          /\ notificationCounters >= maxNotificationsPerOrder) =>
         (inFlight' = inFlight /\ ~lastResult'.success)]_vars

\* the fixed texts, by query type
FixedFallbackText(q) ==
  CASE q = "reassignment_reason" -> "fallback reassignment_reason"
    [] q = "delay_explanation"   -> "fallback delay_explanation"
    [] q = "timeout_explanation" -> "fallback timeout_explanation"
    [] q = "general_status"      -> "fallback default"

NotifierCases ==
  {[n |-> [Notifier EXCEPT !.counter = c], enabled |-> e] :
     c \in {0, maxNotificationsPerOrder}, e \in BOOLEAN}

\* C21: a chatbot query and the end of a text generation change neither the
\* order record nor the timer map nor the scheduled timeouts; and the response
\* and the resulting order state of the controller's handleDriverResponse are
\* those of the service call, whatever happens to the notification it triggers
C21_NotificationsLeaveOrderAlone ==
  /\ [][((\E q \in QueryTypes : ChatQuery(q))
          \/ (\E c \in Callers, q \in QueryTypes, apiOk \in BOOLEAN :
                ApiCallEnds(c, q, apiOk))) =>
         UNCHANGED <<order, driverAssignments, reassignmentLogs, assignmentTimers,
                     timeouts>>]_vars
  /\ [](\A d \in Drivers, accepted \in BOOLEAN :
         LET f == Exec(World, "response", d, accepted)
         IN \A x \in NotifierCases :
              LET r == orderController_handleDriverResponse(
                         World, x.n, x.enabled, d, accepted)
              IN r.w = f.w /\ r.status = ControllerStatus(f.p.outcome))

\* a rejection was answered while its notification was dropped at the cap
C21_Witness ==
  /\ order.exists
  /\ Len(reassignmentRequests) >= 1
  /\ lastResult.caller = "notify"
  /\ ~lastResult.success /\ ~lastResult.skipped
  /\ notificationCounters >= maxNotificationsPerOrder

C23_AppendOnly ==
  [][ /\ Len(driverAssignments') >= Len(driverAssignments)
      /\ \A i \in 1..Len(driverAssignments) :
            /\ driverAssignments'[i].driverId = driverAssignments[i].driverId
            /\ driverAssignments[i].status # "pending"
                 => driverAssignments'[i].status = driverAssignments[i].status
      /\ Len(reassignmentLogs') >= Len(reassignmentLogs)
      /\ SubSeq(reassignmentLogs', 1, Len(reassignmentLogs)) = reassignmentLogs
    ]_vars

\* a rejected offer was followed by a reassignment and a further response
C23_Witness ==
  /\ Len(driverAssignments) >= 3
  /\ Len(reassignmentLogs) >= 2
  /\ driverAssignments[1].status = "rejected"
  /\ driverAssignments[2].status = "timed_out"

\* the set of drivers that appear in driverAssignments
TriedDrivers ==
  {driverAssignments[i].driverId : i \in 1..Len(driverAssignments)}

\* C24: a reassignment offers the order to a driver that is in no entry of
\* driverAssignments yet, so that after one initial assignment the driver
\* ids of driverAssignments are pairwise distinct
C24_ReassignmentPicksNewDriver ==
  /\ [](clientOffers <= 1 =>
          \A i, j \in 1..Len(driverAssignments) :
            i # j => driverAssignments[i].driverId # driverAssignments[j].driverId)
  /\ [][ Len(reassignmentLogs') > Len(reassignmentLogs) =>
           /\ Len(driverAssignments') = Len(driverAssignments) + 1
           /\ driverAssignments'[Len(driverAssignments')].driverId
                 \notin TriedDrivers
           /\ reassignmentLogs'[Len(reassignmentLogs')].newDriverId
                 = driverAssignments'[Len(driverAssignments')].driverId
       ]_vars

\* one initial assignment followed by at least two reassignments
C24_Witness ==
  /\ clientOffers = 1
  /\ Len(reassignmentLogs) >= 2
  /\ Len(driverAssignments) = Len(reassignmentLogs) + 1

C26_UnknownOrderAnswers404 ==
  ~order.exists =>
    /\ orderController_getOrderStatus(World).status = notFound.statusCode
    /\ \A d \in Drivers :
         orderController_assignOrderToDriver(World, d).status = notFound.statusCode
    /\ \A d \in Drivers, accepted \in BOOLEAN :
         orderController_handleDriverResponse(
           World, Notifier, enableReassignmentNotifications, d, accepted).status
           = notFound.statusCode

\* C27: the timeout and the attempt limit that apply to an order are those
\* of the time the order was created: every timer of the order is armed with
\* that timeout, and the order is given up only when its assignments have
\* reached that limit, whatever the service fields are changed to afterwards
C27_ConfigFixedAtCreation ==
  /\ []((assignmentTimers.set /\ assignmentTimers.armed) =>
          assignmentTimers.delay = NewService.assignmentTimeout)
  /\ [][ (order.status = "pending" /\ order'.status = "timeout") =>
           Len(driverAssignments) >= NewService.maxAssignmentAttempts ]_vars

\* C28: a newly created order has status pending, no assignment, no
\* reassignment log, no current driver, reassignmentCount 0 and no timer
C28_NewOrderIsBlank ==
  [][ (~order.exists /\ order'.exists) =>
        /\ order'.status = "pending"
        /\ order'.currentDriverId = NoDriver
        /\ order'.reassignmentCount = 0
        /\ driverAssignments' = <<>>
        /\ reassignmentLogs' = <<>>
        /\ ~assignmentTimers'.set
        /\ timeouts' = {}
    ]_vars

\* the order right after its creation
C28_Witness ==
  /\ order.exists
  /\ order = NewOrder
  /\ driverAssignments = <<>>
  /\ assignmentTimers = NoTimer

\* C29: between operations a deadline timer is scheduled exactly when the
\* order is pending and has a pending assignment of its currentDriverId
C29_TimerIffPendingOffer ==
  (timeouts # {}) <=>
    /\ order.exists
    /\ order.status = "pending"
    /\ FindPending(driverAssignments, order.currentDriverId) # 0

\* C30: once the order is accepted, no later response and no deadline changes
\* its status or its currentDriverId
C30_AcceptedIsAbsorbing ==
  [][ (order.exists /\ order.status = "accepted") =>
        /\ order'.status = "accepted"
        /\ order'.currentDriverId = order.currentDriverId
    ]_vars

\* C31: handleDriverResponse called by a driver other than currentDriverId
\* leaves the order record, its assignments and logs unchanged and leaves the
\* timer of the open offer scheduled
C31_OtherDriverChangesNothing ==
  \A d \in Drivers, accepted \in BOOLEAN :
    (order.exists /\ d # order.currentDriverId) =>
      LET f == Exec(World, "response", d, accepted)
      IN /\ f.p.outcome \in Thrown
         /\ f.w = World

\* the order went from the first pool driver to the second, whose timer is
\* scheduled; the first driver's late answer is refused and changes nothing
C31_Witness ==
  /\ Len(driverAssignments) >= 2
  /\ driverAssignments[1].driverId = availableDrivers[1]
  /\ order.status = "pending"
  /\ order.currentDriverId = availableDrivers[2]
  /\ timeouts = {availableDrivers[2]}
  /\ LET f == Exec(World, "response", availableDrivers[1], TRUE)
     IN f.p.outcome = "NotCurrentDriver" /\ f.w = World

C33_LogsMirrorAssignments ==
  /\ Len(reassignmentLogs) =
       IF Len(driverAssignments) = 0 THEN 0 ELSE Len(driverAssignments) - 1
  /\ \A i \in 1..Len(reassignmentLogs) :
       /\ i + 1 <= Len(driverAssignments)
       /\ reassignmentLogs[i].previousDriverId = driverAssignments[i].driverId
       /\ reassignmentLogs[i].newDriverId = driverAssignments[i + 1].driverId

\* the entry of driverAssignments that the i-th reassignment pushed: the
\* first entry of its newDriverId (a reassignment picks an untried driver)
PushedBy(i) ==
  LET S == {k \in 1..Len(driverAssignments) :
              driverAssignments[k].driverId = reassignmentLogs[i].newDriverId}
  IN CHOOSE k \in S : \A j \in S : k <= j

\* the assignment that the i-th reassignment took the order away from: the
\* last entry of its previousDriverId before the entry it pushed
ClosedBy(i) ==
  LET S == {k \in 1..(PushedBy(i) - 1) :
              driverAssignments[k].driverId = reassignmentLogs[i].previousDriverId}
  IN CHOOSE k \in S : \A j \in S : j <= k

\* C34: the reason of each reassignment log entry agrees with the status of
\* the previous driver's assignment: timed_out for TIMEOUT, rejected for
\* REJECTION
C34_ReasonAgreesWithStatus ==
  \A i \in 1..Len(reassignmentLogs) :
    driverAssignments[ClosedBy(i)].status =
      IF reassignmentLogs[i].reason = "TIMEOUT" THEN "timed_out" ELSE "rejected"

\* C35: the controller requests a reassignment notification only for a
\* driver response that made the order go to a new driver; a rejection that
\* exhausts the drivers requests none
C35_RequestOnlyOnReassignment ==
  [][ Len(reassignmentRequests') > Len(reassignmentRequests) =>
        /\ Len(reassignmentLogs') > Len(reassignmentLogs)
        /\ order'.status # "timeout"
    ]_vars

\* a notification is delivered in this step: one of the waiting requests of
\* notifyCustomerAboutOrderStatus got its text and returned
NotificationDelivered ==
  \E q \in QueryTypes : inFlight'["notify"][q] < inFlight["notify"][q]

\* C36: the notification counter of the order never decreases; it grows by
\* one with each notification delivered with success true, fallback text
\* included, and stays as it is in every other step: skipped and dropped
\* calls, chatbot answers, operations on the order
C36_CounterCountsDeliveries ==
  [][ /\ NotificationDelivered =>
           /\ lastResult'.caller = "notify"
           /\ lastResult'.success
           /\ notificationCounters' = notificationCounters + 1
      /\ ~NotificationDelivered => notificationCounters' = notificationCounters
    ]_vars

\* three notifications were delivered and a further one was dropped at the
\* limit
C36_Witness ==
  /\ notificationCounters = maxNotificationsPerOrder
  /\ lastResult.caller = "notify"
  /\ ~lastResult.success
  /\ lastResult.message = "Notification limit reached for this order"

\* what the process holds about order id: its stored record, its timer and
\* scheduled timeouts, its notification counter
HeldAbout(st, id) ==
  <<st.ordersCollection[id], st.assignmentTimers[id],
    {t \in st.timeouts : t[1] = id}, st.notificationCounters[id]>>

\* C37: an operation on one order changes neither the stored record nor the
\* timer nor the notification counter of any other order
C37_OtherOrdersUntouched ==
  [][ \E id \in OrderIds :
        \A other \in OrderIds \ {id} : HeldAbout(store', other) = HeldAbout(store, other)
    ]_vars

\* both orders are under way with their own timers: one was reassigned twice
\* and notified about, the other is at its first offer
C37_Witness ==
  /\ store.notificationCounters["order"] >= 1
  /\ Len(store.ordersCollection["order"].asg) >= 3
  /\ Len(store.ordersCollection["otherOrder"].asg) = 1
  /\ store.assignmentTimers["order"].armed
  /\ store.assignmentTimers["otherOrder"].armed
  /\ store.assignmentTimers["order"].driverId # store.assignmentTimers["otherOrder"].driverId

====
